---- MODULE Spec2Model ----
(***************************************************************************)
(* A model of the Nachos MP4 file system: the free-sector bitmap, the      *)
(* chained file header (FileHeader), the directory tree, the descriptor    *)
(* table and the facade operations FileSystem::Create, Remove, Open, Close *)
(* and List with the path resolver FileSystem::FindSubDir.  The disk is a  *)
(* function from sector numbers to sector contents; every operation runs   *)
(* to completion in one step, as the program is single-threaded.           *)
(***************************************************************************)
EXTENDS Integers, Sequences, FiniteSets, TLC

(***************************************************************************)
(* Sizes.  The program's values (SectorSize 128, NumDirect 30, ...) are    *)
(* scaled down; the relations between them are the program's.              *)
(***************************************************************************)
SectorSize == 2
NumDirect == 2
NumSectors == 11
NumDirEntries == 2
MaxDepth == 2
MaxCalls == 3

BitsInByte == 8
FreeMapSector == 0
DirectorySector == 1

MaxFileSize == NumDirect * SectorSize
\* sizeof(DirectoryEntry), in the model's bytes
DirEntrySize == 1
DirectoryFileSize == DirEntrySize * NumDirEntries
FreeMapFileSize == (NumSectors + BitsInByte - 1) \div BitsInByte

Sectors == 0 .. (NumSectors - 1)
Chars == {"a", "b"}
Slash == "/"

divRoundUp(n, s) == (n + s - 1) \div s

Min(S) == CHOOSE x \in S : \A y \in S : x <= y

(***************************************************************************)
(* Sector contents.  A sector holds a file header, a piece of a directory  *)
(* table, a piece of the bitmap, or zero bytes.  All contents are records  *)
(* of one shape.  A table piece or bitmap piece whose bytes are all zero   *)
(* is the zero sector.                                                     *)
(***************************************************************************)
ZeroEntry == [inUse |-> FALSE, isDir |-> FALSE, sector |-> 0, name |-> <<>>]
NoSeg == <<>>
ZeroSector == [kind |-> "zero", seg |-> NoSeg, ents |-> <<>>, bits |-> {}]
\* a header on disk: the ints numBytes, numSectors, nextFileHeaderSector and
\* dataSectors[0 .. NumDirect-1], in this order, in one sector
HeaderInts == 3 + NumDirect
HdrSector(seg) ==
    [kind |-> "hdr",
     seg |-> [w \in 1 .. HeaderInts |->
                IF w = 1 THEN seg.numBytes
                ELSE IF w = 2 THEN seg.numSectors
                ELSE IF w = 3 THEN seg.next
                ELSE seg.data[w - 3]],
     ents |-> <<>>, bits |-> {}]
DirSector(ents) ==
    IF \A i \in DOMAIN ents : ents[i] = ZeroEntry THEN ZeroSector
    ELSE [kind |-> "dir", seg |-> NoSeg, ents |-> ents, bits |-> {}]
MapSector(bits) ==
    IF bits = {} THEN ZeroSector
    ELSE [kind |-> "map", seg |-> NoSeg, ents |-> <<>>, bits |-> bits]

\* the header fields decoded from a sector
SegOf(c) ==
    IF c.kind = "hdr"
    THEN [numBytes |-> c.seg[1], numSectors |-> c.seg[2], next |-> c.seg[3],
          data |-> [i \in 1 .. NumDirect |-> c.seg[3 + i]]]
    ELSE [numBytes |-> 0, numSectors |-> 0, next |-> 0,
          data |-> [i \in 1 .. NumDirect |-> 0]]

EntriesPerSector == SectorSize \div DirEntrySize

\* the directory entries decoded from a sector
EntsOf(c) ==
    IF c.kind = "dir" THEN c.ents
    ELSE [i \in 1 .. EntriesPerSector |-> ZeroEntry]

\* the bitmap bits decoded from a sector
BitsOf(c) == IF c.kind = "map" THEN c.bits ELSE {}

(***************************************************************************)
(* Bitmap (in memory: the set of marked sectors).                          *)
(***************************************************************************)
NumClear(map) == NumSectors - Cardinality(map)

\* the sector FindAndSet returns: the smallest clear bit, or -1
FindAndSet(map) == IF Sectors \ map = {} THEN -1 ELSE Min(Sectors \ map)

(***************************************************************************)
(* FileHeader.  An in-memory header chain is the sequence of its segments; *)
(* segment k+1 is the object nextFileHeader of segment k points to.        *)
(***************************************************************************)
\* dataSectors after FileHeader::FileHeader()
NewData == [i \in 1 .. NumDirect |-> -1]

RECURSIVE TakeSectors(_, _, _)
\* the loop of Allocate: n calls of FindAndSet, in order
TakeSectors(map, n, got) ==
    IF n = 0 THEN got
    ELSE LET s == FindAndSet(map)
         IN TakeSectors(map \cup {s}, n - 1, Append(got, s))

Range(f) == {f[i] : i \in DOMAIN f}

RECURSIVE AllocateBody(_, _)
AllocateBody(freeMap, fileSize) ==
    LET numBytes == IF fileSize > MaxFileSize THEN MaxFileSize ELSE fileSize
        numSectors == divRoundUp(numBytes, SectorSize)
    IN IF NumClear(freeMap) < numSectors
       THEN [ret |-> 0, map |-> freeMap, zeroed |-> {}, abort |-> FALSE,
             chain |-> << [numBytes |-> numBytes, numSectors |-> numSectors,
                           next |-> -1, data |-> NewData] >>]
       ELSE LET got == TakeSectors(freeMap, numSectors, <<>>)
                map1 == freeMap \cup Range(got)
                data == [i \in 1 .. NumDirect |->
                            IF i <= numSectors THEN got[i] ELSE -1]
            IN IF fileSize - MaxFileSize > 0
               THEN LET nh == FindAndSet(map1)
                    IN IF nh = -1
                       THEN \* ASSERT(nextFileHeaderSector >= 0) fails
                            [ret |-> 0, map |-> map1, zeroed |-> Range(got),
                             abort |-> TRUE,
                             chain |-> << [numBytes |-> numBytes,
                                           numSectors |-> numSectors,
                                           next |-> -1, data |-> data] >>]
                       ELSE LET r == AllocateBody(map1 \cup {nh},
                                                  fileSize - MaxFileSize)
                            IN [ret |-> SectorSize + r.ret, map |-> r.map,
                                zeroed |-> Range(got) \cup r.zeroed,
                                abort |-> r.abort,
                                chain |-> << [numBytes |-> numBytes,
                                              numSectors |-> numSectors,
                                              next |-> nh, data |-> data] >>
                                          \o r.chain]
               ELSE [ret |-> SectorSize, map |-> map1, zeroed |-> Range(got),
                     abort |-> FALSE,
                     chain |-> << [numBytes |-> numBytes,
                                   numSectors |-> numSectors,
                                   next |-> -1, data |-> data] >>]

\* FileHeader::Allocate on a fresh header: the value returned, the bitmap
\* and the header chain afterwards, the sectors it zeroed on disk, and
\* whether an ASSERT stopped the program
Allocate(freeMap, fileSize) == AllocateBody(freeMap, fileSize)

RECURSIVE DeallocateBody(_, _, _)
DeallocateBody(chain, i, freeMap) ==
    IF chain = <<>> THEN [map |-> freeMap, abort |-> FALSE]
    ELSE IF i > Head(chain).numSectors
         THEN \* nextFileHeader->Deallocate(freeMap), when there is one
              DeallocateBody(Tail(chain), 1, freeMap)
         ELSE IF Head(chain).data[i] \notin freeMap
              THEN \* ASSERT(freeMap->Test(dataSectors[i])) fails
                   [map |-> freeMap, abort |-> TRUE]
              ELSE DeallocateBody(chain, i + 1,
                                  freeMap \ {Head(chain).data[i]})

\* FileHeader::Deallocate: the bitmap afterwards, and whether the ASSERT
\* stopped the program
Deallocate(chain, freeMap) == DeallocateBody(chain, 1, freeMap)

RECURSIVE FetchFrom(_, _)
\* FileHeader::FetchFrom: the chain read from the disk d, starting at sector
FetchFrom(d, sector) ==
    LET h == SegOf(d[sector])
    IN IF h.next # -1 THEN <<h>> \o FetchFrom(d, h.next) ELSE <<h>>

\* WriteBack that writes the first header and no successor
WriteBackHead(d, chain, sector) ==
    [d EXCEPT ![sector] = HdrSector(Head(chain))]

RECURSIVE WriteBack(_, _, _)
\* FileHeader::WriteBack: the disk after the chain is written at sector
WriteBack(d, chain, sector) ==
    LET h == Head(chain)
        d1 == [d EXCEPT ![sector] = HdrSector(h)]
    IN IF h.next # -1 THEN WriteBack(d1, Tail(chain), h.next) ELSE d1

\* ByteToSector that looks in the first header only
ByteToSectorInHead(chain, offset) ==
    Head(chain).data[((offset \div SectorSize) % NumDirect) + 1]

RECURSIVE ByteToSector(_, _)
ByteToSector(chain, offset) ==
    LET sector == offset \div SectorSize
    IN IF sector < NumDirect THEN Head(chain).data[sector + 1]
       ELSE ByteToSector(Tail(chain), offset - MaxFileSize)

\* FileLength that stops at the first header
FileLengthOfHead(chain) == Head(chain).numBytes

RECURSIVE FileLength(_)
FileLength(chain) ==
    IF Len(chain) = 1 THEN Head(chain).numBytes
    ELSE Head(chain).numBytes + FileLength(Tail(chain))

(***************************************************************************)
(* OpenFile: a file is known by the sector of its header; the handle holds *)
(* the header chain read when the file was opened.                         *)
(***************************************************************************)
OpenFile(d, sector) == FetchFrom(d, sector)

\* the sector that holds byte `offset` of the file with header chain `chain`
FileSector(chain, offset) == ByteToSector(chain, offset)

(***************************************************************************)
(* PersistentBitmap: the bitmap is the contents of the file at             *)
(* FreeMapSector, BitsInByte bits to a byte.                               *)
(***************************************************************************)
BitsPerSector == SectorSize * BitsInByte
MapFileSectors == divRoundUp(FreeMapFileSize, SectorSize)

\* PersistentBitmap(freeMapFile, NumSectors): the bitmap read from disk
BitmapFetch(d, file) ==
    {b \in Sectors :
        b \in BitsOf(d[FileSector(file, (b \div BitsPerSector) * SectorSize)])}

\* the disk after WriteSector(sector, contents); no sector, no write
WriteSector(d, sector, contents) ==
    IF sector \in Sectors THEN [d EXCEPT ![sector] = contents] ELSE d

RECURSIVE BitmapWriteSectors(_, _, _, _)
\* the sectors of the bitmap file, written from sector k of the file on
BitmapWriteSectors(d, file, map, k) ==
    IF k >= MapFileSectors THEN d
    ELSE BitmapWriteSectors(
             WriteSector(d, FileSector(file, k * SectorSize),
                         MapSector({b \in map : b \div BitsPerSector = k})),
             file, map, k + 1)

\* PersistentBitmap::WriteBack
BitmapWriteBack(d, file, map) == BitmapWriteSectors(d, file, map, 0)

(***************************************************************************)
(* Directory: a table of NumDirEntries entries, stored as a file.          *)
(***************************************************************************)
Slots == 1 .. NumDirEntries
DirSectorsCount == divRoundUp(DirectoryFileSize, SectorSize)

RECURSIVE DirFetchFrom(_, _, _)
\* the entries of the table read from the file, from entry i on
DirFetchFrom(d, file, i) ==
    IF i > NumDirEntries THEN <<>>
    ELSE LET offset == (i - 1) * DirEntrySize
         IN << EntsOf(d[FileSector(file, offset)])
                     [((offset % SectorSize) \div DirEntrySize) + 1] >>
            \o DirFetchFrom(d, file, i + 1)

\* Directory::FetchFrom
DirFetch(d, file) == DirFetchFrom(d, file, 1)

RECURSIVE DirPiece(_, _, _)
\* the entries of the table that go to sector k of the file, from the j-th
DirPiece(table, k, j) ==
    IF j > EntriesPerSector THEN <<>>
    ELSE << IF k * EntriesPerSector + j \in Slots
            THEN table[k * EntriesPerSector + j] ELSE ZeroEntry >>
         \o DirPiece(table, k, j + 1)

RECURSIVE DirWriteSectors(_, _, _, _)
\* the sectors of the directory file, written from sector k of the file on
DirWriteSectors(d, file, table, k) ==
    IF k >= DirSectorsCount THEN d
    ELSE DirWriteSectors(
             WriteSector(d, FileSector(file, k * SectorSize),
                         DirSector(DirPiece(table, k, 1))),
             file, table, k + 1)

\* Directory::WriteBack
DirWriteBack(d, file, table) == DirWriteSectors(d, file, table, 0)

\* FindIndex with a loop that starts one slot late
FindIndexFromSecond(table, name) ==
    IF \E i \in Slots \ {1} : table[i].inUse /\ table[i].name = name
    THEN Min({i \in Slots \ {1} : table[i].inUse /\ table[i].name = name})
    ELSE -1

\* Directory::FindIndex: the first inUse slot with the name, or -1
FindIndex(table, name) ==
    IF \E i \in Slots : table[i].inUse /\ table[i].name = name
    THEN Min({i \in Slots : table[i].inUse /\ table[i].name = name})
    ELSE -1

Find(table, name) ==
    IF FindIndex(table, name) = -1 THEN -1
    ELSE table[FindIndex(table, name)].sector

IsDir(table, name) ==
    FindIndex(table, name) # -1 /\ table[FindIndex(table, name)].isDir

\* Directory::Add: whether the name was added, and the table afterwards
Add(table, name, sector, isDir) ==
    IF FindIndex(table, name) # -1 THEN [ok |-> FALSE, table |-> table]
    ELSE IF \A i \in Slots : table[i].inUse THEN [ok |-> FALSE, table |-> table]
    ELSE LET i == Min({j \in Slots : ~table[j].inUse})
         IN [ok |-> TRUE,
             table |-> [table EXCEPT ![i] = [inUse |-> TRUE, isDir |-> isDir,
                                             sector |-> sector, name |-> name]]]

\* Directory::Remove
DirRemove(table, name) ==
    IF FindIndex(table, name) = -1 THEN table
    ELSE [table EXCEPT ![FindIndex(table, name)].inUse = FALSE]

(***************************************************************************)
(* Paths are strings: sequences of characters.                             *)
(***************************************************************************)
RECURSIVE TokensBody(_, _, _)
TokensBody(s, cur, acc) ==
    IF s = <<>> THEN (IF cur = <<>> THEN acc ELSE Append(acc, cur))
    ELSE IF Head(s) = Slash
         THEN TokensBody(Tail(s), <<>>,
                         IF cur = <<>> THEN acc ELSE Append(acc, cur))
         ELSE TokensBody(Tail(s), Append(cur, Head(s)), acc)

\* the tokens successive calls of strtok(path, "/") return
Tokens(path) == TokensBody(path, <<>>, <<>>)

NULL == -1

\* OpenFile objects of directory files.  directoryFile, made by the
\* constructor and kept, is object RootHandle; every other object has a
\* number of its own within the call that makes it.
RootHandle == 0
New(h) == [op |-> "new", h |-> h]
Delete(h) == [op |-> "delete", h |-> h]

\* if (curDirFile != directoryFile) delete curDirFile;
DeleteUnlessRoot(h) == IF h # RootHandle THEN <<Delete(h)>> ELSE <<>>

RECURSIVE FindSubDirWalk(_, _, _, _)
\* the while loop of FindSubDir at token i; curDirFile is object i - 1
FindSubDirWalk(d, curDirFile, toks, i) ==
    LET curDir == DirFetch(d, OpenFile(d, curDirFile))
        token == toks[i]
    IN IF i < Len(toks) /\ IsDir(curDir, token)
       THEN LET sector == Find(curDir, token)
            IN IF sector = -1
               THEN [file |-> NULL, name |-> token, handle |-> NULL,
                     events |-> DeleteUnlessRoot(i - 1)]
               ELSE LET r == FindSubDirWalk(d, sector, toks, i + 1)
                    IN [r EXCEPT !.events =
                            DeleteUnlessRoot(i - 1) \o <<New(i)>> \o @]
       ELSE [file |-> curDirFile, name |-> token, handle |-> i - 1,
             events |-> <<>>]

\* FindSubDir that never leaves the root directory
FindSubDirInRoot(d, subDirPath) ==
    IF Tokens(subDirPath) = <<>>
    THEN [file |-> NULL, name |-> <<>>, handle |-> NULL, events |-> <<>>]
    ELSE [file |-> DirectorySector,
          name |-> Tokens(subDirPath)[Len(Tokens(subDirPath))],
          handle |-> RootHandle, events |-> <<>>]

\* FindSubDir answering a path without a name with the root directory
FindSubDirOfRoot(d, subDirPath) ==
    IF Tokens(subDirPath) = <<>>
    THEN [file |-> DirectorySector, name |-> <<>>, handle |-> RootHandle,
          events |-> <<>>]
    ELSE FindSubDirWalk(d, DirectorySector, Tokens(subDirPath), 1)

\* FileSystem::FindSubDir: the header sector of the directory file returned
\* (NULL when none), the name left in subDirPath, the OpenFile object
\* returned, and the OpenFile objects made and deleted on the way
FindSubDir(d, subDirPath) ==
    IF Tokens(subDirPath) = <<>>
    THEN [file |-> NULL, name |-> <<>>, handle |-> NULL, events |-> <<>>]
    ELSE FindSubDirWalk(d, DirectorySector, Tokens(subDirPath), 1)

(***************************************************************************)
(* FileSystem.                                                             *)
(***************************************************************************)
\* Allocate without the write of the clean buffer
ZeroSectorsSkipped(d, zeroed) == d

RECURSIVE ZeroSectors(_, _)
\* writes of zero bytes to the sectors in `zeroed`
ZeroSectors(d, zeroed) ==
    IF zeroed = {} THEN d
    ELSE ZeroSectors(WriteSector(d, Min(zeroed), ZeroSector),
                     zeroed \ {Min(zeroed)})

EmptyTable == [i \in Slots |-> ZeroEntry]

\* FileSystem::FileSystem(format = TRUE): the disk after formatting
Format ==
    LET blank == [s \in Sectors |-> ZeroSector]
        map0 == {FreeMapSector, DirectorySector}
        mapHdr == Allocate(map0, FreeMapFileSize)
        dirHdr == Allocate(mapHdr.map, DirectoryFileSize)
        d1 == ZeroSectors(blank, mapHdr.zeroed \cup dirHdr.zeroed)
        d2 == WriteBack(d1, mapHdr.chain, FreeMapSector)
        d3 == WriteBack(d2, dirHdr.chain, DirectorySector)
        d4 == BitmapWriteBack(d3, OpenFile(d3, FreeMapSector), dirHdr.map)
    IN DirWriteBack(d4, OpenFile(d4, DirectorySector), EmptyTable)

\* the free map as Create and Remove read it from the disk
DiskMap(d) == BitmapFetch(d, OpenFile(d, FreeMapSector))

\* the result of a call: the disk afterwards, how the call ended, the value
\* it returned, and the directory file, name and header sector it worked on
Result(d, out, retval, file, name, sector) ==
    [disk |-> d, out |-> out, retval |-> retval,
     file |-> file, name |-> name, sector |-> sector]

CreateBody(d, path, size, isDir) ==
    LET initialSize == IF isDir THEN DirectoryFileSize ELSE size
        found == FindSubDir(d, path)
        curDirFile == found.file
        targetPath == found.name
    IN IF curDirFile = NULL
       THEN Result(d, "noDir", FALSE, NULL, targetPath, -1)
       ELSE
       LET dirFile == OpenFile(d, curDirFile)
           directory == DirFetch(d, dirFile)
       IN IF Find(directory, targetPath) # -1
          THEN Result(d, "exists", FALSE, curDirFile, targetPath, -1)
          ELSE
          LET freeMap == DiskMap(d)
              sector == FindAndSet(freeMap)
              added == Add(directory, targetPath, sector, isDir)
          IN IF sector = -1
             THEN Result(d, "noHeader", FALSE, curDirFile, targetPath, -1)
             ELSE IF ~added.ok
             THEN Result(d, "dirFull", FALSE, curDirFile, targetPath, sector)
             ELSE
             LET hdr == Allocate(freeMap \cup {sector}, initialSize)
                 d1 == ZeroSectors(d, hdr.zeroed)
             IN IF hdr.abort
                THEN Result(d1, "abort", FALSE, curDirFile, targetPath, sector)
                ELSE IF hdr.ret = 0
                THEN Result(d1, "noSpace", FALSE, curDirFile, targetPath, sector)
                ELSE
                LET d2 == WriteBack(d1, hdr.chain, sector)
                    d3 == DirWriteBack(d2, dirFile, added.table)
                    d4 == BitmapWriteBack(d3, OpenFile(d3, FreeMapSector),
                                          hdr.map)
                IN Result(d4, "ok", TRUE, curDirFile, targetPath, sector)

\* Create with the code of lines 241-243 without freeMap->WriteBack
CreateKeepsOldMap(d, path, size, isDir) ==
    LET r == CreateBody(d, path, size, isDir)
    IN IF r.out = "ok"
       THEN [r EXCEPT !.disk = BitmapWriteBack(r.disk, OpenFile(d, FreeMapSector),
                                               DiskMap(d))]
       ELSE r

\* Create with freeMap->WriteBack done before the result of Allocate is tested
CreateFlushesFirst(d, path, size, isDir) ==
    LET r == CreateBody(d, path, size, isDir)
    IN IF r.out = "noSpace"
       THEN [r EXCEPT !.disk = BitmapWriteBack(r.disk, OpenFile(d, FreeMapSector),
                                               DiskMap(d) \cup {r.sector})]
       ELSE r

\* Create with the free map, the new header sector marked in it, written
\* back when the name is found in the directory
CreateMarksOnExists(d, path, size, isDir) ==
    LET r == CreateBody(d, path, size, isDir)
    IN IF r.out = "exists"
       THEN [r EXCEPT !.disk =
               BitmapWriteBack(d, OpenFile(d, FreeMapSector),
                               (DiskMap(d) \cup {FindAndSet(DiskMap(d))}) \ {-1})]
       ELSE r

\* Create with the free map written back when Directory::Add fails
CreateMarksOnDirFull(d, path, size, isDir) ==
    LET r == CreateBody(d, path, size, isDir)
    IN IF r.out = "dirFull"
       THEN [r EXCEPT !.disk =
               BitmapWriteBack(d, OpenFile(d, FreeMapSector),
                               DiskMap(d) \cup {r.sector})]
       ELSE r

\* FileSystem::Create
Create(d, path, size, isDir) == CreateBody(d, path, size, isDir)

RECURSIVE RemoveBody(_, _, _)
RECURSIVE RemoveAll(_, _, _, _)
\* the loop of Remove over the entries of the sub-directory read before it
RemoveAll(d, path, subDir, i) ==
    IF i > NumDirEntries THEN [disk |-> d, abort |-> FALSE]
    ELSE IF subDir[i].inUse
         THEN LET r == RemoveBody(d, TRUE, path \o <<Slash>> \o subDir[i].name)
              IN IF r.out = "abort" THEN [disk |-> r.disk, abort |-> TRUE]
                 ELSE RemoveAll(r.disk, path, subDir, i + 1)
         ELSE RemoveAll(d, path, subDir, i + 1)

RemoveBody(d, recursion, path) ==
    LET found == FindSubDir(d, path)
        curDirFile == found.file
        targetPath == found.name
    IN IF curDirFile = NULL
       THEN Result(d, "noDir", FALSE, NULL, targetPath, -1)
       ELSE
       LET dirFile == OpenFile(d, curDirFile)
           directory == DirFetch(d, dirFile)
           sector == Find(directory, targetPath)
       IN IF sector = -1
          THEN Result(d, "notFound", FALSE, curDirFile, targetPath, -1)
          ELSE
          LET sub == IF IsDir(directory, targetPath) /\ recursion
                     THEN RemoveAll(d, path,
                                    DirFetch(d, OpenFile(d, sector)), 1)
                     ELSE [disk |-> d, abort |-> FALSE]
              d1 == sub.disk
          IN IF sub.abort
             THEN Result(d1, "abort", FALSE, curDirFile, targetPath, sector)
             ELSE
             LET fileHdr == FetchFrom(d1, sector)
                 freeMap == DiskMap(d1)
                 freed == Deallocate(fileHdr, freeMap)
                 d2 == BitmapWriteBack(d1, OpenFile(d1, FreeMapSector),
                                       freed.map \ {sector})
                 d3 == DirWriteBack(d2, dirFile,
                                    DirRemove(directory, targetPath))
             IN IF freed.abort
                THEN Result(d1, "abort", FALSE, curDirFile, targetPath, sector)
                ELSE Result(d3, "removed", FALSE, curDirFile, targetPath,
                            sector)

\* FileSystem::Remove
Remove(d, recursion, path) == RemoveBody(d, recursion, path)

(***************************************************************************)
(* The OpenFile objects of directory files a call makes and deletes.       *)
(***************************************************************************)
RECURSIVE BalanceBody(_, _, _)
BalanceBody(events, live, bad) ==
    IF events = <<>> THEN [leaked |-> Cardinality(live), bad |-> bad]
    ELSE LET e == Head(events)
         IN IF e.op = "new"
            THEN BalanceBody(Tail(events), live \cup {e.h}, bad)
            ELSE BalanceBody(Tail(events), live \ {e.h},
                             bad \/ e.h \notin live)

\* what a sequence of new and delete leaves behind: the number of objects
\* made and not deleted, and whether a delete hit directoryFile or an
\* object already deleted
Balance(events) == BalanceBody(events, {}, FALSE)

Balanced == [leaked |-> 0, bad |-> FALSE]

Both(b1, b2) == [leaked |-> b1.leaked + b2.leaked, bad |-> b1.bad \/ b2.bad]

\* Create with lines 252-253 left out
CreateKeepsHandle(d, path) == Balance(FindSubDir(d, path).events)

\* Create: FindSubDir, then lines 252-253 on every path that returns
CreateHandles(d, path) ==
    LET found == FindSubDir(d, path)
    IN IF found.file = NULL THEN Balance(found.events)
       ELSE Balance(found.events \o DeleteUnlessRoot(found.handle))

RECURSIVE RemoveHandles(_, _, _)
RECURSIVE RemoveAllHandles(_, _, _, _)
\* the calls of Remove made by the loop over the sub-directory
RemoveAllHandles(d, path, subDir, i) ==
    IF i > NumDirEntries THEN Balanced
    ELSE IF subDir[i].inUse
         THEN LET child == path \o <<Slash>> \o subDir[i].name
                  r == RemoveBody(d, TRUE, child)
              IN IF r.out = "abort" THEN Balanced
                 ELSE Both(RemoveHandles(d, TRUE, child),
                           RemoveAllHandles(r.disk, path, subDir, i + 1))
         ELSE RemoveAllHandles(d, path, subDir, i + 1)

\* Remove: FindSubDir, subDirFile when the sub-directory is emptied, and
\* the delete of curDirFile on the paths that return after FindSubDir
RemoveHandles(d, recursion, path) ==
    LET found == FindSubDir(d, path)
        directory == DirFetch(d, OpenFile(d, found.file))
        sector == Find(directory, found.name)
        subDirFile == Len(Tokens(path)) + 1
    IN IF found.file = NULL THEN Balance(found.events)
       ELSE IF sector = -1
       THEN Balance(found.events \o DeleteUnlessRoot(found.handle))
       ELSE IF IsDir(directory, found.name) /\ recursion
       THEN Both(RemoveAllHandles(d, path, DirFetch(d, OpenFile(d, sector)), 1),
                 Balance(found.events
                            \o <<New(subDirFile), Delete(subDirFile)>>
                            \o DeleteUnlessRoot(found.handle)))
       ELSE Balance(found.events \o DeleteUnlessRoot(found.handle))

(***************************************************************************)
(* The file descriptor table.  A slot holds NULL, the header sector of the *)
(* file of the OpenFile installed in it, or what the memory held when the  *)
(* FileSystem object was made.                                             *)
(***************************************************************************)
MAXFILENUM == 2
Uninit == -2
Garbage == -3

Ids == 0 .. MAXFILENUM

\* the table after the loop of the constructor, i = 0 .. MAXFILENUM - 1
NewTable == [i \in Ids |-> IF i < MAXFILENUM THEN NULL ELSE Uninit]

\* fileDescriptorTable[ID] == NULL; memory never written reads as NULL or
\* as something else
ReadsNull(table, ID, isNull) ==
    table[ID] = NULL \/ (table[ID] = Uninit /\ isNull)

\* the slot holds an OpenFile
HoldsFile(table, ID) == table[ID] >= 0

RECURSIVE OpenScan(_, _, _)
\* the loop of Open: the first ID in 1 .. MAXFILENUM whose slot reads NULL
OpenScan(table, ID, isNull) ==
    IF ID > MAXFILENUM THEN -1
    ELSE IF ReadsNull(table, ID, isNull) THEN ID
    ELSE OpenScan(table, ID + 1, isNull)

\* what a read of a slot can find it to be: NULL or not
Reads(table) ==
    IF \E i \in Ids : table[i] = Uninit THEN BOOLEAN ELSE {FALSE}

\* the table once the loop of Open has read slot MAXFILENUM as not NULL
SeenGarbage(table) ==
    IF table[MAXFILENUM] = Uninit THEN [table EXCEPT ![MAXFILENUM] = Garbage]
    ELSE table

OpenResult(out, file, id, table, opened, handles) ==
    [out |-> out, file |-> file, id |-> id, table |-> table,
     openedNum |-> opened, handles |-> handles]

\* FileSystem::Open: the pair returned, the descriptor table and openedNum
\* afterwards
OpenBody(d, table, opened, path, isNull) ==
    LET found == FindSubDir(d, path)
        curDirFile == found.file
        targetPath == found.name
        back == Balance(found.events \o DeleteUnlessRoot(found.handle))
    IN IF curDirFile = NULL
       THEN OpenResult("noDir", NULL, -1, table, opened,
                       Balance(found.events))
       ELSE
       LET directory == DirFetch(d, OpenFile(d, curDirFile))
           sector == Find(directory, targetPath)
           ID == OpenScan(table, 1, isNull)
       IN IF opened = MAXFILENUM
          THEN OpenResult("full", NULL, -1, table, opened, back)
          ELSE IF ~(sector >= 0)
          THEN OpenResult("notFound", NULL, -1, table, opened, back)
          ELSE IF ID # -1
          THEN OpenResult("opened", sector, ID,
                          [table EXCEPT ![ID] = sector], opened + 1, back)
          ELSE OpenResult("noSlot", NULL, -1, SeenGarbage(table), opened,
                          back)

\* Open with a loop that starts at ID = 0
OpenFromZero(d, table, opened, path, isNull) ==
    LET r == OpenBody(d, table, opened, path, isNull)
    IN IF r.out = "opened" /\ table[0] = NULL
       THEN [r EXCEPT !.id = 0,
                      !.table = [table EXCEPT ![0] = r.file]]
       ELSE r

Open(d, table, opened, path, isNull) ==
    OpenBody(d, table, opened, path, isNull)

\* Close(id), as the syscall table describes it: release the descriptor
\* and return 1, or return 0.  Releasing what was never an OpenFile stops
\* the program.
CloseBody(table, opened, id, isNull) ==
    IF id < 1 \/ id > MAXFILENUM \/ ReadsNull(table, id, isNull)
    THEN [out |-> "notOpen", retval |-> FALSE, table |-> table,
          openedNum |-> opened]
    ELSE IF ~HoldsFile(table, id)
    THEN [out |-> "abort", retval |-> FALSE, table |-> SeenGarbage(table),
          openedNum |-> opened]
    ELSE [out |-> "closed", retval |-> TRUE,
          table |-> [table EXCEPT ![id] = NULL], openedNum |-> opened - 1]

Close(table, opened, id, isNull) == CloseBody(table, opened, id, isNull)

\* FileSystem::List: how the call ends, and the OpenFile objects it makes
\* and deletes.  What it prints is left out.
ListBody(d, recursion, dirPath) ==
    IF dirPath = <<Slash>>
    THEN [out |-> "listed", handles |-> Balanced]
    ELSE
    LET found == FindSubDir(d, dirPath)
        conDir == DirFetch(d, OpenFile(d, found.file))
        targetSector == Find(conDir, found.name)
        targetDirFile == Len(Tokens(dirPath)) + 1
    IN IF found.file = NULL
       THEN [out |-> "noDir", handles |-> Balance(found.events)]
       ELSE IF ~(targetSector >= 0)
       THEN \* ASSERT(targetSector >= 0) fails
            [out |-> "abort", handles |-> Balanced]
       ELSE [out |-> "listed",
             handles |-> Balance(found.events
                            \o <<New(targetDirFile), Delete(targetDirFile)>>
                            \o DeleteUnlessRoot(found.handle))]

List(d, recursion, dirPath) == ListBody(d, recursion, dirPath)

(***************************************************************************)
(* The calls the model makes.                                              *)
(***************************************************************************)
Names == {<<c>> : c \in Chars}

RECURSIVE PathsOfDepth(_)
\* the paths "/x1/x2/.../xn" of n names
PathsOfDepth(n) ==
    IF n = 0 THEN {<<>>}
    ELSE {p \o <<Slash>> \o x : p \in PathsOfDepth(n - 1), x \in Names}

\* the empty path, "/", the paths of up to MaxDepth names, and one more name
\* for the root, so that the root can be asked for more entries than it has
Paths ==
    {<<>>, <<Slash>>, <<Slash, "c">>}
        \cup UNION {PathsOfDepth(n) : n \in 1 .. MaxDepth}

\* sizes asked of Create: empty, one full header, and one byte more
Sizes == {0, MaxFileSize, MaxFileSize + 1}

VARIABLES
    disk,   \* sector -> contents
    last,   \* the last call: what it was, how it ended, what it returned
    done,   \* the last call that wrote to the disk, with its arguments
    mark,   \* the free map and containing directory before a directory was
            \* created, kept while calls write only below that directory
    calls,  \* the number of calls made
    fileDescriptorTable,    \* id -> what the slot holds
    openedNum,
    got,    \* the pair the last Open returned
    handles \* the OpenFile objects of directories the last call left

vars == <<disk, last, done, mark, calls, fileDescriptorTable, openedNum, got,
          handles>>

\* the variables of the descriptor table
fdVars == <<fileDescriptorTable, openedNum, got>>

\* the variables that describe the disk and the calls that wrote to it
diskVars == <<disk, done, mark>>

Outcome(op, r) == [op |-> op, out |-> r.out, retval |-> r.retval]

Call(op, path, size, flag, r, clearBefore) ==
    [op |-> op, path |-> path, size |-> size, flag |-> flag,
     file |-> r.file, name |-> r.name, sector |-> r.sector,
     clearBefore |-> clearBefore]

\* the inUse entries of a directory table
InUseEntries(table) ==
    {[name |-> table[i].name, sector |-> table[i].sector,
      isDir |-> table[i].isDir] : i \in {j \in Slots : table[j].inUse}}

NoMark == [state |-> "none", path |-> <<>>, file |-> NULL, map |-> {},
           ents |-> {}]

IsPrefix(s, t) == Len(s) <= Len(t) /\ SubSeq(t, 1, Len(s)) = s

\* the mark after a call that wrote to the disk
NextMark(d, op, path, flag, r) ==
    LET toks == Tokens(path)
        below == mark.state = "open" /\ IsPrefix(mark.path, toks)
                    /\ Len(toks) > Len(mark.path)
    IN IF r.out = "abort" THEN NoMark
       ELSE IF below THEN mark
       ELSE IF op = "remove" /\ flag /\ mark.state = "open" /\ toks = mark.path
       THEN [mark EXCEPT !.state = "closed"]
       ELSE IF op = "create" /\ flag /\ r.name = toks[Len(toks)]
       THEN [state |-> "open", path |-> toks, file |-> r.file,
             map |-> DiskMap(d),
             ents |-> InUseEntries(DirFetch(d, OpenFile(d, r.file)))]
       ELSE NoMark

Init ==
    /\ disk = Format
    /\ last = [op |-> "format", out |-> "ok", retval |-> TRUE]
    /\ done = [op |-> "format", path |-> <<>>, size |-> 0, flag |-> TRUE,
               file |-> NULL, name |-> <<>>, sector |-> -1,
               clearBefore |-> NumSectors]
    /\ mark = NoMark
    /\ calls = 0
    /\ fileDescriptorTable = NewTable
    /\ openedNum = 0
    /\ got = [file |-> NULL, id |-> -1]
    /\ handles = Balanced

\* a disk an earlier run left behind: a directory "a" in the root and an
\* empty file "b" in it
OldDisk ==
    Create(Create(Format, <<Slash, "a">>, 0, TRUE).disk,
           <<Slash, "a", Slash, "b">>, 0, FALSE).disk

\* FileSystem::FileSystem(format = FALSE) on that disk; calls counts the
\* calls made since
InitOld ==
    /\ disk = OldDisk
    /\ last = [op |-> "mount", out |-> "ok", retval |-> TRUE]
    /\ done = [op |-> "mount", path |-> <<>>, size |-> 0, flag |-> FALSE,
               file |-> NULL, name |-> <<>>, sector |-> -1,
               clearBefore |-> NumClear(DiskMap(OldDisk))]
    /\ mark = NoMark
    /\ calls = 0
    /\ fileDescriptorTable = NewTable
    /\ openedNum = 0
    /\ got = [file |-> NULL, id |-> -1]
    /\ handles = Balanced

\* an ASSERT stopped the program
Halted == last.out = "abort"

\* the calls that wrote to the disk
Wrote(out) == out \in {"ok", "removed", "abort"}

DoCreate ==
    /\ ~Halted
    /\ calls < MaxCalls
    /\ calls' = calls + 1
    /\ \E path \in Paths, size \in Sizes, isDir \in BOOLEAN :
          /\ isDir => size = 0
          /\ \E r \in {Create(disk, path, size, isDir)} :
                /\ disk' = r.disk
                /\ last' = Outcome("create", r)
                /\ done' = IF Wrote(r.out)
                           THEN Call("create", path, size, isDir, r,
                                     NumClear(DiskMap(disk)))
                           ELSE done
                /\ mark' = IF Wrote(r.out)
                           THEN NextMark(disk, "create", path, isDir, r)
                           ELSE mark
                /\ handles' = IF r.out = "abort" THEN Balanced
                              ELSE CreateHandles(disk, path)
    /\ UNCHANGED fdVars

DoRemove ==
    /\ ~Halted
    /\ calls < MaxCalls
    /\ calls' = calls + 1
    /\ \E path \in Paths, recursion \in BOOLEAN :
          \E r \in {Remove(disk, recursion, path)} :
             /\ disk' = r.disk
             /\ last' = Outcome("remove", r)
             /\ done' = IF Wrote(r.out)
                        THEN Call("remove", path, 0, recursion, r,
                                  NumClear(DiskMap(disk)))
                        ELSE done
             /\ mark' = IF Wrote(r.out)
                        THEN NextMark(disk, "remove", path, recursion, r)
                        ELSE mark
             /\ handles' = IF r.out = "abort" THEN Balanced
                           ELSE RemoveHandles(disk, recursion, path)
    /\ UNCHANGED fdVars

Next == DoCreate \/ DoRemove

Spec == Init /\ [][Next]_vars

\* the same calls on the disk of an earlier run
SpecOld == InitOld /\ [][Next]_vars

DoOpen ==
    /\ ~Halted
    /\ calls < MaxCalls
    /\ calls' = calls + 1
    /\ \E path \in Paths, isNull \in Reads(fileDescriptorTable) :
          \E r \in {Open(disk, fileDescriptorTable, openedNum, path, isNull)} :
             /\ fileDescriptorTable' = r.table
             /\ openedNum' = r.openedNum
             /\ got' = [file |-> r.file, id |-> r.id]
             /\ last' = [op |-> "open", out |-> r.out, retval |-> r.id # -1]
             /\ handles' = r.handles
    /\ UNCHANGED diskVars

DoClose ==
    /\ ~Halted
    /\ calls < MaxCalls
    /\ calls' = calls + 1
    /\ \E id \in Ids, isNull \in Reads(fileDescriptorTable) :
          \E r \in {Close(fileDescriptorTable, openedNum, id, isNull)} :
             /\ fileDescriptorTable' = r.table
             /\ openedNum' = r.openedNum
             /\ last' = [op |-> "close", out |-> r.out, retval |-> r.retval]
    /\ handles' = Balanced
    /\ UNCHANGED <<diskVars, got>>

DoList ==
    /\ ~Halted
    /\ calls < MaxCalls
    /\ calls' = calls + 1
    /\ \E path \in Paths, recursion \in BOOLEAN :
          \E r \in {List(disk, recursion, path)} :
             /\ last' = [op |-> "list", out |-> r.out, retval |-> TRUE]
             /\ handles' = r.handles
    /\ UNCHANGED <<diskVars, fdVars>>

\* the calls of a program that creates, opens and closes files
NextFiles == DoCreate \/ DoOpen \/ DoClose

SpecFiles == Init /\ [][NextFiles]_vars

\* the calls of a program that makes all the calls
NextAll == DoCreate \/ DoRemove \/ DoOpen \/ DoClose \/ DoList

SpecAll == Init /\ [][NextAll]_vars


(***************************************************************************)
(* What the disk holds, as the properties below read it.                   *)
(***************************************************************************)
TableAt(d, s) == DirFetch(d, OpenFile(d, s))

RECURSIVE DirsFrom(_, _, _)
DirsFrom(d, todo, seen) ==
    IF todo = {} THEN seen
    ELSE LET s == CHOOSE x \in todo : TRUE
             t == TableAt(d, s)
             kids == {t[i].sector : i \in {j \in Slots : t[j].inUse /\ t[j].isDir}}
         IN DirsFrom(d, (todo \cup kids) \ (seen \cup {s}), seen \cup {s})

\* the header sectors of the directories reachable from the root
ReachableDirs(d) == DirsFrom(d, {DirectorySector}, {})

\* the header sectors the inUse entries of reachable directories name
EntrySectors(d) ==
    UNION {{TableAt(d, s)[i].sector : i \in {j \in Slots : TableAt(d, s)[j].inUse}}
           : s \in ReachableDirs(d)}

\* the header sectors of the chain that starts at sector s
ChainHeaders(d, s) ==
    {s} \cup {FetchFrom(d, s)[k].next : k \in 1 .. (Len(FetchFrom(d, s)) - 1)}

\* the data sectors of the chain that starts at sector s
ChainData(d, s) ==
    LET c == FetchFrom(d, s)
    IN UNION {{c[k].data[i] : i \in 1 .. c[k].numSectors} : k \in 1 .. Len(c)}

\* the sectors some reachable structure references
Referenced(d) ==
    UNION {ChainHeaders(d, s) \cup ChainData(d, s)
           : s \in {FreeMapSector, DirectorySector} \cup EntrySectors(d)}

\* every segment of the chain has all its numSectors data sectors
FullyAllocated(chain) ==
    \A k \in 1 .. Len(chain) :
        \A i \in 1 .. chain[k].numSectors : chain[k].data[i] # -1

\* the slots (segment, index) of a chain that hold a marked data sector
AllocatedSlots(d, chain) ==
    {<<k, i>> \in (1 .. Len(chain)) \X (1 .. NumDirect) :
        chain[k].data[i] # -1 /\ chain[k].data[i] \in DiskMap(d)}

Max2(a, b) == IF a >= b THEN a ELSE b

\* every component of the path but the last names a sub-directory
RECURSIVE ResolvesFrom(_, _, _, _)
ResolvesFrom(d, s, toks, i) ==
    IF i >= Len(toks) THEN TRUE
    ELSE LET t == TableAt(d, s)
         IN /\ \E j \in Slots :
                  t[j].inUse /\ t[j].isDir /\ t[j].name = toks[i]
            /\ ResolvesFrom(d,
                   t[CHOOSE j \in Slots : t[j].inUse /\ t[j].isDir
                                             /\ t[j].name = toks[i]].sector,
                   toks, i + 1)

NonFinalAreDirs(d, path) == ResolvesFrom(d, DirectorySector, Tokens(path), 1)

\* every place of a reachable structure that holds a sector number
References(d) ==
    {[place |-> <<"root", s, 0>>, sector |-> s]
        : s \in {FreeMapSector, DirectorySector}}
    \cup UNION {{[place |-> <<"entry", s, i>>, sector |-> TableAt(d, s)[i].sector]
                    : i \in {j \in Slots : TableAt(d, s)[j].inUse}}
                : s \in ReachableDirs(d)}
    \cup UNION {UNION {
            {[place |-> <<"next", h, 0>>, sector |-> SegOf(d[h]).next]}
            \cup {[place |-> <<"data", h, i>>, sector |-> SegOf(d[h]).data[i]]
                     : i \in 1 .. NumDirect}
            : h \in ChainHeaders(d, s)}
        : s \in {FreeMapSector, DirectorySector} \cup EntrySectors(d)}

(***************************************************************************)
(* Properties.                                                             *)
(***************************************************************************)

\* C1: after Format and any completed Create and Remove calls, a sector's
\* free-map bit is set if and only if a reachable structure references it
\* (the headers at sectors 0 and 1, the inUse entries of reachable
\* directories, their chains' data sectors and successor headers).
FreeMapIsReachable ==
    ~Halted => \A s \in Sectors : s \in DiskMap(disk) <=> s \in Referenced(disk)

\* C2: a successful Create(p, n, false) followed by Remove(false, p) returns
\* NumClear of the on-disk free map to its value before the Create.
CreateRemoveRestoresNumClear ==
    [][(/\ done.op = "create" /\ ~done.flag
        /\ calls' = calls + 1
        /\ last'.op = "remove" /\ last'.out = "removed"
        /\ ~done'.flag /\ done'.path = done.path)
       => NumClear(DiskMap(disk')) = done.clearBefore]_vars

\* C3: a chain whose successor segment did not get its data sectors is never
\* reported as allocated: when Create returns success, every segment of the
\* chain it wrote has all its data sectors.
NoFailedChainReportedOk ==
    (last.op = "create" /\ last.out = "ok")
        => FullyAllocated(FetchFrom(disk, done.sector))

\* C4: a Create or Remove on a path with a non-final component that is
\* absent or names a regular file fails: no call on such a path creates or
\* removes an entry.
UnresolvedPathFails ==
    [][(calls' = calls + 1 /\ last'.out \in {"ok", "removed"})
       => NonFinalAreDirs(disk, done'.path)]_vars

\* C5: when Create returns failure, and when Remove fails because the path
\* does not resolve or the name is absent, the disk (free map, directories,
\* headers) is what it was before the call.
FailureLeavesDisk ==
    [][(calls' = calls + 1
        /\ last'.out \in {"noDir", "exists", "noHeader", "dirFull", "noSpace",
                          "notFound"})
       => disk' = disk]_vars

\* a Create has just failed for lack of space for the data of a file
CreateFailedNoSpace == last.op = "create" /\ last.out = "noSpace"

\* C6: Remove returns true when the named entry existed and was removed.
RemoveReturnsTrueOnSuccess ==
    (last.op = "remove" /\ last.out = "removed") => last.retval = TRUE

\* C7: the chain a successful Create of n bytes wrote has FileLength n,
\* ceil(n/SectorSize) allocated data sectors marked in the free map, and
\* max(1, ceil(n/MaxFileSize)) header segments.
CreatedChainHasSize ==
    (last.op = "create" /\ last.out = "ok" /\ ~done.flag) =>
        LET chain == FetchFrom(disk, done.sector)
        IN /\ FileLength(chain) = done.size
           /\ Cardinality(AllocatedSlots(disk, chain))
                 = divRoundUp(done.size, SectorSize)
           /\ Len(chain) = Max2(1, divRoundUp(done.size, MaxFileSize))

\* C8: after files and sub-directories were created under a directory d,
\* Remove(true, d) leaves the on-disk free map and the inUse entries of the
\* directory that contained d as they were just before d was created.
RecursiveRemoveRestores ==
    mark.state = "closed" =>
        /\ DiskMap(disk) = mark.map
        /\ InUseEntries(TableAt(disk, mark.file)) = mark.ents

\* C9: no sector number other than -1 is held in two places of the reachable
\* structures (entries of reachable directories, successor links, data
\* sector tables, the well-known sectors 0 and 1).
NoSectorReferencedTwice ==
    \A r1, r2 \in References(disk) :
        (r1.place # r2.place /\ r1.sector # -1) => r1.sector # r2.sector

\* a file with a successor header stands in a sub-directory, next to the
\* free-map file and the two directory files
ChainAmongOthers ==
    /\ \E s \in EntrySectors(disk) : Len(FetchFrom(disk, s)) = 2
    /\ Cardinality(EntrySectors(disk)) >= 2
    /\ Cardinality(ReachableDirs(disk)) >= 2

\* C10: in every reachable directory the names of the inUse entries are
\* pairwise distinct.
NamesDistinct ==
    \A s \in ReachableDirs(disk) :
        \A i, j \in Slots :
            (i # j /\ TableAt(disk, s)[i].inUse /\ TableAt(disk, s)[j].inUse)
                => TableAt(disk, s)[i].name # TableAt(disk, s)[j].name

\* a Create of a name already present was refused in a directory with two
\* inUse entries
ExistingNameRefused ==
    /\ last.op = "create" /\ last.out = "exists"
    /\ \E s \in ReachableDirs(disk) :
          \A i \in Slots : TableAt(disk, s)[i].inUse

\* C11: a successful Create of a regular file of n bytes lowers NumClear()
\* of the on-disk free map by max(1, ceil(n / MaxFileSize)) header sectors
\* plus ceil(n / SectorSize) data sectors.
CreateTakesSectors ==
    (last.op = "create" /\ last.out = "ok" /\ ~done.flag) =>
        done.clearBefore - NumClear(DiskMap(disk))
            = Max2(1, divRoundUp(done.size, MaxFileSize))
                + divRoundUp(done.size, SectorSize)

OpenTakesLowestFreeId ==
    [][(calls' = calls + 1 /\ last'.op = "open" /\ last'.out = "opened") =>
          /\ got'.id \in 1 .. MAXFILENUM
          /\ ~HoldsFile(fileDescriptorTable, got'.id)
          /\ \A i \in 1 .. (got'.id - 1) : HoldsFile(fileDescriptorTable, i)
          /\ fileDescriptorTable'
                = [fileDescriptorTable EXCEPT ![got'.id] = got'.file]
          /\ HoldsFile(fileDescriptorTable', got'.id)
          /\ openedNum' = openedNum + 1]_vars

\* Open has returned the last id while the first is in use
OpenedLastId ==
    /\ last.op = "open" /\ last.out = "opened"
    /\ got.id = MAXFILENUM
    /\ HoldsFile(fileDescriptorTable, 1)
    /\ fileDescriptorTable[MAXFILENUM] = got.file

\* the path has a name and every component before the last names a
\* sub-directory
PathResolves(d, path) == Tokens(path) # <<>> /\ NonFinalAreDirs(d, path)

\* the last component of a path that resolves is absent from the directory
\* that contains it
FinalNameAbsent(d, path) ==
    /\ PathResolves(d, path)
    /\ Find(TableAt(d, FindSubDir(d, path).file),
            Tokens(path)[Len(Tokens(path))]) = -1

\* C14: Open returns (NULL, -1) when the path does not resolve, when the
\* final name is absent from the containing directory, or when MAXFILENUM
\* files are open; the descriptor table and openedNum stay as they were.
OpenFailsWithSentinel ==
    \A path \in Paths, isNull \in BOOLEAN :
        (\/ ~PathResolves(disk, path)
         \/ FinalNameAbsent(disk, path)
         \/ openedNum = MAXFILENUM)
        => LET r == Open(disk, fileDescriptorTable, openedNum, path, isNull)
           IN /\ r.file = NULL /\ r.id = -1
              /\ r.table = fileDescriptorTable
              /\ r.openedNum = openedNum

\* the directory table that contains the last component of a path that
\* resolves
ContainingDir(d, path) == TableAt(d, FindSubDir(d, path).file)

\* C15: Create on a path whose final name is an inUse entry of the
\* containing directory, a file or a sub-directory, returns failure and
\* leaves the free map as it was.
ExistingNameLeavesMap ==
    [](\A freeMap \in {DiskMap(disk)} :
          \A path \in Paths :
             (PathResolves(disk, path) /\ ~FinalNameAbsent(disk, path))
             => \A size \in Sizes, isDir \in BOOLEAN :
                   \A r \in {Create(disk, path, size, isDir)} :
                      /\ r.out = "exists" /\ r.retval = FALSE
                      /\ DiskMap(r.disk) = freeMap)

\* a Create was refused for a name that exists, on a disk where the root
\* holds sub-directories only and a sub-directory holds an entry
RefusedBesideSubDir ==
    /\ last.op = "create" /\ last.out = "exists"
    /\ \A i \in Slots : TableAt(disk, DirectorySector)[i].inUse
                            => TableAt(disk, DirectorySector)[i].isDir
    /\ \E s \in ReachableDirs(disk) \ {DirectorySector} :
          \E i \in Slots : TableAt(disk, s)[i].inUse

\* C16: when every entry of the containing directory is inUse, Create of a
\* new name in it returns failure, and the sector FindAndSet gave for the
\* header is not marked in the free map on disk.
DirFullLeavesMap ==
    [](\A freeMap \in {DiskMap(disk)} :
          \A path \in Paths :
             (/\ FinalNameAbsent(disk, path)
              /\ \A i \in Slots : ContainingDir(disk, path)[i].inUse)
             => \A size \in Sizes, isDir \in BOOLEAN :
                   \A r \in {Create(disk, path, size, isDir)} :
                      /\ r.out \in {"dirFull", "noHeader"}
                      /\ r.retval = FALSE
                      /\ DiskMap(r.disk) = freeMap
                      /\ FindAndSet(freeMap) \notin DiskMap(r.disk))

\* a Create has failed for want of a directory entry while the root was
\* full and free sectors were left
RefusedByFullRoot ==
    /\ last.op = "create" /\ last.out = "dirFull"
    /\ \A i \in Slots : TableAt(disk, DirectorySector)[i].inUse
    /\ NumClear(DiskMap(disk)) > 0

\* the paths without a name: the empty path, "/" and "//"
NoNamePaths == {<<>>, <<Slash>>, <<Slash, Slash>>}

\* C17: for "/" and for every path without a name component FindSubDir
\* returns NULL; Create, Remove and Open on it return failure, the disk is
\* as before, and the descriptor table and openedNum are as before.
NoNameFails ==
    \A path \in NoNamePaths :
        /\ FindSubDir(disk, path).file = NULL
        /\ \A size \in Sizes, isDir \in BOOLEAN :
              LET r == Create(disk, path, size, isDir)
              IN r.out = "noDir" /\ r.retval = FALSE /\ r.disk = disk
        /\ \A recursion \in BOOLEAN :
              LET r == Remove(disk, recursion, path)
              IN r.out = "noDir" /\ r.retval = FALSE /\ r.disk = disk
        /\ \A isNull \in BOOLEAN :
              LET r == Open(disk, fileDescriptorTable, openedNum, path, isNull)
              IN /\ r.out = "noDir" /\ r.file = NULL /\ r.id = -1
                 /\ r.table = fileDescriptorTable /\ r.openedNum = openedNum

\* a call on a path without a name has failed while a file was open
NoNameRefusedWhileOpen ==
    /\ last.out = "noDir" /\ last.retval = FALSE
    /\ openedNum > 0
    /\ \E id \in 1 .. MAXFILENUM : HoldsFile(fileDescriptorTable, id)

\* the header sectors of the files the program can open: the free map file,
\* the root directory file, and every entry of a reachable directory
FileHeaders(d) == {FreeMapSector, DirectorySector} \cup EntrySectors(d)

\* C18: for every fully allocated chain and every offset from 0 to
\* FileLength() - 1, ByteToSector(offset) is the data sector at index
\* floor((offset mod MaxFileSize) / SectorSize) of segment
\* floor(offset / MaxFileSize); it is not -1 and it is marked in the free map.
ByteToSectorIndexes ==
    \A s \in FileHeaders(disk) :
        LET chain == FetchFrom(disk, s)
        IN FullyAllocated(chain)
           => \A offset \in 0 .. (FileLength(chain) - 1) :
                 /\ ByteToSector(chain, offset) =
                       chain[(offset \div MaxFileSize) + 1]
                           .data[((offset % MaxFileSize) \div SectorSize) + 1]
                 /\ ByteToSector(chain, offset) # -1
                 /\ ByteToSector(chain, offset) \in DiskMap(disk)

\* a file of two headers is on disk, fully allocated, and the byte after
\* MaxFileSize is found in the first data sector of the second header
SecondHeaderHoldsByte ==
    \E s \in EntrySectors(disk) :
        /\ Len(FetchFrom(disk, s)) = 2
        /\ FullyAllocated(FetchFrom(disk, s))
        /\ FileLength(FetchFrom(disk, s)) = MaxFileSize + 1
        /\ ByteToSector(FetchFrom(disk, s), MaxFileSize) =
              FetchFrom(disk, s)[2].data[1]
        /\ ByteToSector(FetchFrom(disk, s), MaxFileSize) \in DiskMap(disk)

HandlesReleasedOnce == handles.leaked = 0 /\ ~handles.bad

\* a Create has returned after the resolver had opened a sub-directory and
\* handed it to Create
CreatedThroughSubDir ==
    /\ last.op = "create" /\ last.out = "ok"
    /\ FindSubDir(disk, done.path).handle # RootHandle
    /\ FindSubDir(disk, done.path).file # DirectorySector
    /\ FindSubDir(disk, done.path).events # <<>>
    /\ handles = Balanced

RECURSIVE DirOfFrom(_, _, _, _)
\* the header sector of the directory the non-final components lead to
DirOfFrom(d, s, toks, i) ==
    IF i >= Len(toks) THEN s
    ELSE LET t == TableAt(d, s)
         IN DirOfFrom(d,
                t[CHOOSE j \in Slots : t[j].inUse /\ t[j].isDir
                                          /\ t[j].name = toks[i]].sector,
                toks, i + 1)

\* the header sector of the directory that contains the last component of
\* a path that resolves
DirOf(d, path) == DirOfFrom(d, DirectorySector, Tokens(path), 1)

\* the slots in which two tables differ
ChangedSlots(t1, t2) == {i \in Slots : t1[i] # t2[i]}

\* C21: a successful Create or Remove of a path whose containing directory
\* is an existing sub-directory changes one entry of that directory's table
\* (added by Create, cleared by Remove); the tables of the root and of every
\* other directory that exists before and after are unchanged, and the new
\* entry is found under the sub-directory.
OnlyContainingDirChanges ==
    [][(/\ calls' = calls + 1
        /\ last'.out \in {"ok", "removed"}
        /\ PathResolves(disk, done'.path)
        /\ Len(Tokens(done'.path)) >= 2)
       => \A sub \in {DirOf(disk, done'.path)},
             name \in {Tokens(done'.path)[Len(Tokens(done'.path))]} :
             /\ sub # DirectorySector
             /\ \A s \in (ReachableDirs(disk) \cap ReachableDirs(disk'))
                             \ {sub} :
                   TableAt(disk', s) = TableAt(disk, s)
             /\ Cardinality(ChangedSlots(TableAt(disk, sub),
                                         TableAt(disk', sub))) = 1
             /\ \A i \in ChangedSlots(TableAt(disk, sub), TableAt(disk', sub)) :
                   IF last'.op = "create"
                   THEN /\ ~TableAt(disk, sub)[i].inUse
                        /\ TableAt(disk', sub)[i].inUse
                        /\ TableAt(disk', sub)[i].name = name
                        /\ Find(TableAt(disk', sub), name) = done'.sector
                   ELSE /\ TableAt(disk, sub)[i].inUse
                        /\ TableAt(disk, sub)[i].name = name
                        /\ ~TableAt(disk', sub)[i].inUse
                        /\ Find(TableAt(disk', sub), name) = -1]_vars

\* an entry of a sub-directory that is still reachable has been removed
RemovedFromSubDir ==
    /\ last.op = "remove" /\ last.out = "removed"
    /\ Len(Tokens(done.path)) = 2
    /\ done.file # DirectorySector
    /\ done.file \in ReachableDirs(disk)
    /\ Find(TableAt(disk, done.file), done.name) = -1

\* C22: right after a successful Create(path, _, TRUE) the new directory
\* has no inUse entry, also when its data sectors held the table of a
\* removed directory that had inUse entries.
NewDirectoryIsEmpty ==
    (last.op = "create" /\ last.out = "ok" /\ done.flag)
    => \A i \in Slots : ~TableAt(disk, done.sector)[i].inUse

\* the header sector of directory "a" on the disk of the earlier run
OldDirSector == Find(TableAt(OldDisk, DirectorySector), <<"a">>)

\* directory "a" was removed with its entry "b" left in its table, and the
\* next call created a directory on the data sectors of "a"
ReusedTableSectors ==
    /\ calls = 2
    /\ last.op = "create" /\ last.out = "ok" /\ done.flag
    /\ \E i \in Slots : TableAt(OldDisk, OldDirSector)[i].inUse
    /\ ChainData(disk, done.sector) = ChainData(OldDisk, OldDirSector)
    /\ Find(TableAt(OldDisk, OldDirSector), <<"b">>) \in DiskMap(disk)
    /\ \A i \in Slots : ~TableAt(disk, done.sector)[i].inUse

\* C23: every Create call returns a success flag: no ASSERT of
\* FileHeader::Allocate stops it, whatever the size and the number of free
\* sectors.
CreateReturnsFlag ==
    last.op = "create" => last.out # "abort"

\* C24: Remove of an existing entry never trips the assertion of
\* FileHeader::Deallocate: every dataSectors[i] with i < numSectors of every
\* segment of the chain being removed is a sector marked in the free map.
RemoveNeverTripsDeallocate ==
    last.op = "remove" => last.out # "abort"

\* the slots the loop of Open has read when Open returns: those up to the
\* one it took, or all of 1 .. MAXFILENUM when it took none
SlotsRead(out, id) ==
    IF out = "opened" THEN 1 .. id
    ELSE IF out = "noSlot" THEN 1 .. MAXFILENUM
    ELSE {}

\* C25: every descriptor-table slot that Open reads or writes is a slot the
\* constructor set to empty (or that was written since).
OpenUsesInitialisedSlots ==
    [][(calls' = calls + 1 /\ last'.op = "open")
       => \A ID \in SlotsRead(last'.out, got'.id) :
             fileDescriptorTable[ID] # Uninit]_vars

====
